---- MODULE Spec2Model ----
(***************************************************************************)
(* Model of the user service of catwithtudou/snake                         *)
(* (src/cmd/job/main.go, package user):                                    *)
(*   - AddUserFollow / CancelUserFollow: the four-step follow transaction; *)
(*   - BatchGetUsers: the concurrent aggregation of user views.            *)
(* The repositories (user.BaseRepo, user.FollowRepo, user.StatRepo) and    *)
(* idl.TransferUser are not part of the source file; they are modelled     *)
(* from the specification, every call of theirs may succeed or fail.       *)
(***************************************************************************)
EXTENDS Integers, Sequences, FiniteSets, TLC

\* ------------------------------------------------------------- bounds
NumUsers == 2
MaxCalls == 3
MaxLen == 2
NumCallers == 2
NumPhones == 2
MaxLogins == 3

Users == 1..NumUsers
Pairs == Users \X Users

\* ---------------------------------------------------------- constants
FollowStatusNormal == 1
FollowStatusDelete == 0

\* ------------------------------------------------------- stored rows
\* A row as gorm reads it into a zero-valued struct: ID = 0 when no row
\* exists.
NoRow == [ID |-> 0, Status |-> FollowStatusDelete]

RowID(u, v) == (u - 1) * NumUsers + v

\* The tables: follow rows keyed (user_id, followed_uid), fan rows keyed
\* (user_id, follower_uid), and the two counters of user_stat.
EmptyDB ==
    [ follow        |-> [p \in Pairs |-> NoRow],
      fans          |-> [p \in Pairs |-> NoRow],
      followCount   |-> [u \in Users |-> 0],
      followerCount |-> [u \in Users |-> 0] ]

\* ------------------------------------------- repository ports (writes)
CreateUserFollow(t, userID, followedUID) ==
    [t EXCEPT !.follow[<<userID, followedUID>>] =
        [ID |-> RowID(userID, followedUID), Status |-> FollowStatusNormal]]

CreateUserFans(t, userID, followerUID) ==
    [t EXCEPT !.fans[<<userID, followerUID>>] =
        [ID |-> RowID(userID, followerUID), Status |-> FollowStatusNormal]]

UpdateUserFollowStatus(t, userID, followedUID, status) ==
    IF t.follow[<<userID, followedUID>>].ID = 0
    THEN t
    ELSE [t EXCEPT !.follow[<<userID, followedUID>>].Status = status]

UpdateUserFansStatus(t, userID, followerUID, status) ==
    IF t.fans[<<userID, followerUID>>].ID = 0
    THEN t
    ELSE [t EXCEPT !.fans[<<userID, followerUID>>].Status = status]

IncrFollowCount(t, userID, step) ==
    [t EXCEPT !.followCount[userID] = @ + step]

IncrFollowerCount(t, userID, step) ==
    [t EXCEPT !.followerCount[userID] = @ + step]

\* ---------------------------------------------------------- variables
VARIABLES
    db,          \* the committed tables
    tx,          \* the tables as the call's transaction sees them
    txState,     \* "none" | "open" | "committed" | "rolledback"
    pc,          \* "idle" | "step1" .. "step4" | "commit" | "returned"
    call,        \* [fn, userID, followedUID] of the call in progress
    ret,         \* "none" | "nil" | "err": the error the call returned
    pre,         \* db when the call began
    failedStep,  \* 0, or the step (1..4, 5 = commit) that returned an error
    panicked,    \* a step of the call panicked
    calls,       \* number of calls begun
    prev,        \* the call that returned just before this one began, kept
                 \* when it returned nil and was about the same pair
    query        \* what the last IsFollowedUser read and returned

followVars == <<db, tx, txState, pc, call, ret, pre, failedStep, panicked,
                calls, prev, query>>

\* BatchGetUsers: one call, its goroutines and what they share.
VARIABLES
    mainPC,        \* position of the calling goroutine
    userID,        \* the requester
    userIDs,       \* the target IDs, in the caller's order
    users,         \* IDs of the records GetUsersByIds returned
    curUser,       \* ID of the requester's record
    userFollowMap, \* IDs the requester follows (nil reads as empty)
    userFansMap,   \* IDs that follow the requester
    userStatMap,   \* ID -> stat record
    err,           \* the variable err of BatchGetUsers, shared with the workers
    errChan,       \* chan error, capacity 1
    finished,      \* the channel finished is closed
    wg,            \* the wait group's counter
    lock,          \* holder of userList.Lock, 0 when free
    IDMap,         \* userList.IDMap
    workerPC,      \* position of the transform worker of each user
    waiterPC,      \* position of the goroutine that waits on wg
    result,        \* what BatchGetUsers returned
    lookupErrs     \* the errors the five lookups returned

batchVars == <<mainPC, userID, userIDs, users, curUser, userFollowMap,
               userFansMap, userStatMap, err, errChan, finished, wg, lock,
               IDMap, workerPC, waiterPC, result, lookupErrs>>

\* PhoneLogin: the user table and the calls in progress, one per caller.
VARIABLES
    userTable,   \* the user records, in the order they were created
    loginPC,     \* position of each caller's PhoneLogin
    loginPhone,  \* the phone each caller logs in with
    loginU,      \* the variable u of PhoneLogin: the record GetUserByPhone read
    loginNew,    \* the record PhoneLogin created, NoUser when it created none
    loginRet,    \* what PhoneLogin returned: the token's claims or an error
    logins       \* number of PhoneLogin calls begun

loginVars == <<userTable, loginPC, loginPhone, loginU, loginNew, loginRet,
               logins>>

vars == <<followVars, batchVars, loginVars>>

\* A nil *model.UserInfo and a nil *model.UserStatModel.
NilStat == [UserID |-> 0]
NilInfo == [ID |-> 0, IsFollow |-> 0, IsFans |-> 0, Stat |-> NilStat]

NoResult == [kind |-> "none", infos |-> <<>>, err |-> "nil"]

ErrChanCap == 1

\* idl.TransferUser: the aggregated view of one user.
TransferUser(in) ==
    [ID |-> in.User, IsFollow |-> in.IsFollow, IsFans |-> in.IsFans,
     Stat |-> in.UserStat]

IDSet(ids) == {ids[i] : i \in 1..Len(ids)}

SeqsUpTo(n) == UNION {[1..k -> Users] : k \in 0..n}

\* The requester. The repositories answer any requester alike (their
\* answers are drawn from all subsets of the targets), so one requester
\* stands for all; the targets range over every user, the requester
\* included.
Requesters == {CHOOSE u \in Users : \A v \in Users : u <= v}

InitBatch ==
    /\ mainPC = "idle"
    /\ userID = 0
    /\ userIDs = <<>>
    /\ users = {}
    /\ curUser = 0
    /\ userFollowMap = {}
    /\ userFansMap = {}
    /\ userStatMap = <<>>
    /\ err = "nil"
    /\ errChan = <<>>
    /\ finished = FALSE
    /\ wg = 0
    /\ lock = 0
    /\ IDMap = [u \in Users |-> NilInfo]
    /\ workerPC = [u \in Users |-> "none"]
    /\ waiterPC = "none"
    /\ result = NoResult
    /\ lookupErrs = {}

\* ------------------------------------------------------ PhoneLogin data
Callers == 1..NumCallers

\* Phone numbers of one and of two decimal digits.
Phones == 9..(8 + NumPhones)

\* strconv.Itoa: the decimal digits of n, most significant first, after a
\* minus sign when n is negative.
Digit(d) == <<"0", "1", "2", "3", "4", "5", "6", "7", "8", "9">>[d + 1]

RECURSIVE Digits(_)
Digits(n) ==
    IF n < 10 THEN <<Digit(n)>> ELSE Append(Digits(n \div 10), Digit(n % 10))

Itoa(n) == IF n < 0 THEN <<"-">> \o Digits(0 - n) ELSE Digits(n)

\* The zero value of model.UserBaseModel: what a lookup that finds no record
\* leaves in the struct.
NoUser == [ID |-> 0, Phone |-> 0, Username |-> <<>>]

NoLoginRet == [kind |-> "none", UserID |-> 0, Username |-> <<>>, err |-> "nil"]

\* The records of the user table with the given phone.
UsersWithPhone(tbl, phone) ==
    {i \in 1..Len(tbl) : tbl[i].Phone = phone}

InitLogin ==
    /\ userTable = <<>>
    /\ loginPC = [p \in Callers |-> "idle"]
    /\ loginPhone = [p \in Callers |-> 0]
    /\ loginU = [p \in Callers |-> NoUser]
    /\ loginNew = [p \in Callers |-> NoUser]
    /\ loginRet = [p \in Callers |-> NoLoginRet]
    /\ logins = 0

NoCall == [fn |-> "none", userID |-> 0, followedUID |-> 0]

NoQuery == [err |-> FALSE, userFollowModel |-> NoRow, result |-> FALSE]

NoPrev == [fn |-> "none", userID |-> 0, followedUID |-> 0, ret |-> "none",
           panicked |-> FALSE, followCount |-> 0, followerCount |-> 0]

Init ==
    /\ db = EmptyDB
    /\ tx = EmptyDB
    /\ txState = "none"
    /\ pc = "idle"
    /\ call = NoCall
    /\ ret = "none"
    /\ pre = EmptyDB
    /\ failedStep = 0
    /\ panicked = FALSE
    /\ calls = 0
    /\ prev = NoPrev
    /\ query = NoQuery
    /\ InitBatch
    /\ InitLogin

\* ------------------------------------------------ transaction plumbing
\* db := model.GetDB(); tx := db.Begin(); defer func() { recover ... }()
TxBegin(fn, u, v) ==
    /\ pc \in {"idle", "returned", "queried"}
    /\ calls < MaxCalls
    /\ calls' = calls + 1
    /\ prev' = IF pc = "returned" /\ ret = "nil"
                  /\ call.userID = u /\ call.followedUID = v
               THEN [fn |-> call.fn, userID |-> call.userID,
                     followedUID |-> call.followedUID, ret |-> ret,
                     panicked |-> panicked,
                     followCount |-> pre.followCount[call.userID],
                     followerCount |-> pre.followerCount[call.followedUID]]
               ELSE NoPrev
    /\ call' = [fn |-> fn, userID |-> u, followedUID |-> v]
    /\ tx' = db
    /\ txState' = "open"
    /\ pre' = db
    /\ ret' = "none"
    /\ failedStep' = 0
    /\ panicked' = FALSE
    /\ pc' = "step1"
    /\ query' = NoQuery
    /\ UNCHANGED db
    /\ UNCHANGED <<batchVars, loginVars>>

\* A step succeeded: the transaction holds its write, the next step runs.
StepOk(t, next) ==
    /\ tx' = t
    /\ pc' = next
    /\ UNCHANGED <<db, txState, call, ret, pre, failedStep, panicked, calls, prev>>
    /\ UNCHANGED <<query, batchVars, loginVars>>

\* Mutant of ReturnErr: the error exit commits the transaction instead of
\* rolling it back.
ReturnErrCommits(step, rollback) ==
    /\ db' = tx
    /\ txState' = "committed"
    /\ tx' = tx
    /\ ret' = "err"
    /\ failedStep' = step
    /\ pc' = "returned"
    /\ UNCHANGED <<call, pre, panicked, calls, prev>>
    /\ UNCHANGED <<query, batchVars, loginVars>>

\* if err != nil { [tx.Rollback()]; return errors.Wrap(err, ...) }
ReturnErr(step, rollback) ==
    /\ txState' = IF rollback THEN "rolledback" ELSE txState
    /\ tx' = IF rollback THEN db ELSE tx
    /\ ret' = "err"
    /\ failedStep' = step
    /\ pc' = "returned"
    /\ UNCHANGED <<db, call, pre, panicked, calls, prev>>
    /\ UNCHANGED <<query, batchVars, loginVars>>

\* A step panicked: the deferred function recovers, rolls the transaction
\* back and the function returns the zero value of its result, a nil error.
Recovered ==
    /\ txState' = "rolledback"
    /\ tx' = db
    /\ ret' = "nil"
    /\ panicked' = TRUE
    /\ pc' = "returned"
    /\ UNCHANGED <<db, call, pre, failedStep, calls, prev>>
    /\ UNCHANGED <<query, batchVars, loginVars>>

\* err = tx.Commit().Error: the writes of the transaction become the
\* committed tables, or the commit fails and the transaction is rolled back.
TxCommit ==
    \/ /\ db' = tx
       /\ txState' = "committed"
       /\ ret' = "nil"
       /\ pc' = "returned"
       /\ UNCHANGED <<tx, call, pre, failedStep, panicked, calls, prev>>
       /\ UNCHANGED <<query, batchVars, loginVars>>
    \/ ReturnErr(5, TRUE)

\* ------------------------------------------------------ AddUserFollow
AddUserFollowBegin ==
    \E u \in Users, v \in Users : TxBegin("AddUserFollow", u, v)

AddStep1 ==
    /\ pc = "step1" /\ call.fn = "AddUserFollow"
    /\ \/ StepOk(CreateUserFollow(tx, call.userID, call.followedUID), "step2")
       \/ ReturnErr(1, TRUE)
       \/ Recovered

\* Mutant of AddStep2: the arguments of CreateUserFans are swapped.
AddStep2SwappedArgs ==
    /\ pc = "step2" /\ call.fn = "AddUserFollow"
    /\ \/ StepOk(CreateUserFans(tx, call.userID, call.followedUID), "step3")
       \/ ReturnErr(2, TRUE)
       \/ Recovered

AddStep2 ==
    /\ pc = "step2" /\ call.fn = "AddUserFollow"
    /\ \/ StepOk(CreateUserFans(tx, call.followedUID, call.userID), "step3")
       \/ ReturnErr(2, TRUE)
       \/ Recovered

\* Mutant of AddStep3: the followee's followCount is incremented.
AddStep3WrongUser ==
    /\ pc = "step3" /\ call.fn = "AddUserFollow"
    /\ \/ StepOk(IncrFollowCount(tx, call.followedUID, 1), "step4")
       \/ ReturnErr(3, TRUE)
       \/ Recovered

AddStep3 ==
    /\ pc = "step3" /\ call.fn = "AddUserFollow"
    /\ \/ StepOk(IncrFollowCount(tx, call.userID, 1), "step4")
       \/ ReturnErr(3, TRUE)
       \/ Recovered

\* The error exit of the fourth step returns without tx.Rollback().
AddStep4 ==
    /\ pc = "step4" /\ call.fn = "AddUserFollow"
    /\ \/ StepOk(IncrFollowerCount(tx, call.followedUID, 1), "commit")
       \/ ReturnErr(4, FALSE)
       \/ Recovered

AddCommit ==
    /\ pc = "commit" /\ call.fn = "AddUserFollow"
    /\ TxCommit

\* --------------------------------------------------- CancelUserFollow
CancelUserFollowBegin ==
    \E u \in Users, v \in Users : TxBegin("CancelUserFollow", u, v)

CancelStep1 ==
    /\ pc = "step1" /\ call.fn = "CancelUserFollow"
    /\ \/ StepOk(UpdateUserFollowStatus(tx, call.userID, call.followedUID,
                                        FollowStatusDelete), "step2")
       \/ ReturnErr(1, TRUE)
       \/ Recovered

CancelStep2 ==
    /\ pc = "step2" /\ call.fn = "CancelUserFollow"
    /\ \/ StepOk(UpdateUserFansStatus(tx, call.followedUID, call.userID,
                                      FollowStatusDelete), "step3")
       \/ ReturnErr(2, TRUE)
       \/ Recovered

CancelStep3 ==
    /\ pc = "step3" /\ call.fn = "CancelUserFollow"
    /\ \/ StepOk(IncrFollowCount(tx, call.userID, -1), "step4")
       \/ ReturnErr(3, TRUE)
       \/ Recovered

CancelStep4 ==
    /\ pc = "step4" /\ call.fn = "CancelUserFollow"
    /\ \/ StepOk(IncrFollowerCount(tx, call.followedUID, -1), "commit")
       \/ ReturnErr(4, TRUE)
       \/ Recovered

CancelCommit ==
    /\ pc = "commit" /\ call.fn = "CancelUserFollow"
    /\ TxCommit

\* ------------------------------------------------------------ PhoneLogin
\* userRepo.GetUserByPhone: the first record with the phone, or the zero
\* record when there is none.
RepoGetUserByPhone(tbl, phone) ==
    IF UsersWithPhone(tbl, phone) = {}
    THEN NoUser
    ELSE tbl[CHOOSE i \in UsersWithPhone(tbl, phone) :
                 \A j \in UsersWithPhone(tbl, phone) : i <= j]

\* userRepo.Create: the record is stored under the next ID, which is
\* returned.
RepoCreate(tbl, u) == Append(tbl, [u EXCEPT !.ID = Len(tbl) + 1])

\* token.Sign: the token issued for the claims.
Sign(c) ==
    [kind |-> "token", UserID |-> c.UserID, Username |-> c.Username,
     err |-> "nil"]

LoginKeeps == UNCHANGED <<followVars, batchVars>>

\* return "", errors.Wrapf(err, ...)
LoginReturnErr(p, e) ==
    /\ loginRet' = [loginRet EXCEPT ![p] =
                       [kind |-> "error", UserID |-> 0, Username |-> <<>>,
                        err |-> e]]
    /\ loginPC' = [loginPC EXCEPT ![p] = "returned"]

\* A caller enters PhoneLogin(ctx, phone, verifyCode).
PhoneLoginBegin(p) ==
    /\ loginPC[p] \in {"idle", "returned"}
    /\ logins < MaxLogins
    /\ logins' = logins + 1
    /\ \E phone \in Phones : loginPhone' = [loginPhone EXCEPT ![p] = phone]
    /\ loginPC' = [loginPC EXCEPT ![p] = "getUser"]
    /\ loginU' = [loginU EXCEPT ![p] = NoUser]
    /\ loginNew' = [loginNew EXCEPT ![p] = NoUser]
    /\ loginRet' = [loginRet EXCEPT ![p] = NoLoginRet]
    /\ UNCHANGED userTable
    /\ LoginKeeps

\* A call made while no other call is between its entry and its return.
PhoneLoginCall(p) ==
    /\ \A q \in Callers : loginPC[q] \in {"idle", "returned"}
    /\ PhoneLoginBegin(p)

\* A call made whatever the other callers are doing.
PhoneLoginCallConcurrent(p) == PhoneLoginBegin(p)

\* u, err := srv.GetUserByPhone(phone): the record read from the table, or
\* an error of the repository, which PhoneLogin wraps and returns.
GetUserByPhone(p) ==
    /\ loginPC[p] = "getUser"
    /\ \/ /\ loginU' = [loginU EXCEPT ![p] =
                           RepoGetUserByPhone(userTable, loginPhone[p])]
          /\ loginPC' = [loginPC EXCEPT ![p] = "checkID"]
          /\ UNCHANGED loginRet
       \/ /\ LoginReturnErr(p, "get u info err")
          /\ UNCHANGED loginU
    /\ UNCHANGED <<userTable, loginPhone, loginNew, logins>>
    /\ LoginKeeps

\* Mutant of Create: a user is created whether or not one was found.
CreateAlways(p) ==
    /\ loginPC[p] = "checkID"
    /\ \/ /\ userTable' = RepoCreate(userTable,
                 [ID |-> 0, Phone |-> loginPhone[p],
                  Username |-> Itoa(loginPhone[p])])
          /\ loginNew' = [loginNew EXCEPT ![p] = userTable'[Len(userTable')]]
          /\ loginPC' = [loginPC EXCEPT ![p] = "sign"]
          /\ UNCHANGED loginRet
       \/ /\ LoginReturnErr(p, "create user err")
          /\ UNCHANGED <<userTable, loginNew>>
    /\ UNCHANGED <<loginPhone, loginU, logins>>
    /\ LoginKeeps

\* if u.ID == 0 { u := model.UserBaseModel{Phone, Username: Itoa(phone)};
\* u.ID, err = srv.userRepo.Create(...) }: the new record and its ID are
\* held by the inner u (loginNew), the u of the lookup (loginU) is left as
\* it was. A user that was found skips the block.
Create(p) ==
    /\ loginPC[p] = "checkID"
    /\ \/ /\ loginU[p].ID # 0
          /\ loginPC' = [loginPC EXCEPT ![p] = "sign"]
          /\ UNCHANGED <<userTable, loginNew, loginRet>>
       \/ /\ loginU[p].ID = 0
          /\ userTable' = RepoCreate(userTable,
                 [ID |-> 0, Phone |-> loginPhone[p],
                  Username |-> Itoa(loginPhone[p])])
          /\ loginNew' = [loginNew EXCEPT ![p] = userTable'[Len(userTable')]]
          /\ loginPC' = [loginPC EXCEPT ![p] = "sign"]
          /\ UNCHANGED loginRet
       \/ /\ loginU[p].ID = 0
          /\ LoginReturnErr(p, "create user err")
          /\ UNCHANGED <<userTable, loginNew>>
    /\ UNCHANGED <<loginPhone, loginU, logins>>
    /\ LoginKeeps

\* tokenStr, err = token.Sign(ctx, token.Context{UserID: u.ID, Username:
\* u.Username}, ""): u is the u of the lookup.
TokenSign(p) ==
    /\ loginPC[p] = "sign"
    /\ \/ /\ loginRet' = [loginRet EXCEPT ![p] =
                 Sign([UserID |-> loginU[p].ID,
                       Username |-> loginU[p].Username])]
          /\ loginPC' = [loginPC EXCEPT ![p] = "returned"]
       \/ LoginReturnErr(p, "gen token sign err")
    /\ UNCHANGED <<userTable, loginPhone, loginU, loginNew, logins>>
    /\ LoginKeeps

PhoneLoginSteps(p) ==
    \/ GetUserByPhone(p)
    \/ Create(p)
    \/ TokenSign(p)

NextLogin == \E p \in Callers : PhoneLoginCall(p) \/ PhoneLoginSteps(p)

SpecLogin == Init /\ [][NextLogin]_vars

NextLoginRace ==
    \E p \in Callers : PhoneLoginCallConcurrent(p) \/ PhoneLoginSteps(p)

SpecLoginRace == Init /\ [][NextLoginRace]_vars

\* ----------------------------------------------------- IsFollowedUser
\* Mutant of IsFollowedUser: the status of the row is not looked at.
IsFollowedUserAnyStatus ==
    /\ pc \in {"idle", "returned", "queried"}
    /\ calls < MaxCalls
    /\ calls' = calls + 1
    /\ \E u \in Users, v \in Users :
          /\ call' = [fn |-> "IsFollowedUser", userID |-> u, followedUID |-> v]
          /\ \/ query' = [err |-> FALSE, userFollowModel |-> db.follow[<<u, v>>],
                          result |-> db.follow[<<u, v>>].ID > 0]
             \/ query' = [err |-> TRUE, userFollowModel |-> NoRow,
                          result |-> FALSE]
    /\ pc' = "queried"
    /\ pre' = db /\ tx' = db /\ txState' = "none"
    /\ ret' = "none" /\ failedStep' = 0 /\ panicked' = FALSE /\ prev' = NoPrev
    /\ UNCHANGED <<db, batchVars, loginVars>>

\* model.GetDB().Where("user_id=? AND followed_uid=? ", ...).Find(row): the
\* row is read from the committed tables, or the query returns an error (a
\* missing row included) and the struct keeps its zero value. An error is
\* logged and answered false; otherwise the answer is ID > 0 && Status ==
\* FollowStatusNormal.
IsFollowedUser ==
    /\ pc \in {"idle", "returned", "queried"}
    /\ calls < MaxCalls
    /\ calls' = calls + 1
    /\ \E u \in Users, v \in Users :
          /\ call' = [fn |-> "IsFollowedUser", userID |-> u, followedUID |-> v]
          /\ \/ query' = [err |-> FALSE, userFollowModel |-> db.follow[<<u, v>>],
                          result |-> /\ db.follow[<<u, v>>].ID > 0
                                     /\ db.follow[<<u, v>>].Status
                                            = FollowStatusNormal]
             \/ query' = [err |-> TRUE, userFollowModel |-> NoRow,
                          result |-> FALSE]
    /\ pc' = "queried"
    /\ pre' = db /\ tx' = db /\ txState' = "none"
    /\ ret' = "none" /\ failedStep' = 0 /\ panicked' = FALSE /\ prev' = NoPrev
    /\ UNCHANGED <<db, batchVars, loginVars>>

\* ------------------------------------------------------ specification
Next ==
    \/ AddUserFollowBegin
    \/ AddStep1
    \/ AddStep2
    \/ AddStep3
    \/ AddStep4
    \/ AddCommit
    \/ CancelUserFollowBegin
    \/ CancelStep1
    \/ CancelStep2
    \/ CancelStep3
    \/ CancelStep4
    \/ CancelCommit
    \/ IsFollowedUser

Spec == Init /\ [][Next]_vars

\* The calls of a caller that follows only a pair whose edge is not Normal
\* and unfollows only a pair whose edge is Normal.
AddUserFollowBeginNotNormal ==
    \E u \in Users, v \in Users :
        /\ db.follow[<<u, v>>].Status # FollowStatusNormal
        /\ TxBegin("AddUserFollow", u, v)

CancelUserFollowBeginNormal ==
    \E u \in Users, v \in Users :
        /\ db.follow[<<u, v>>].Status = FollowStatusNormal
        /\ TxBegin("CancelUserFollow", u, v)

NextDisciplined ==
    \/ AddUserFollowBeginNotNormal
    \/ AddStep1
    \/ AddStep2
    \/ AddStep3
    \/ AddStep4
    \/ AddCommit
    \/ CancelUserFollowBeginNormal
    \/ CancelStep1
    \/ CancelStep2
    \/ CancelStep3
    \/ CancelStep4
    \/ CancelCommit

SpecDisciplined == Init /\ [][NextDisciplined]_vars

\* ------------------------------------------------------ BatchGetUsers
\* What the calling goroutine leaves alone between two of its statements.
MainKeeps ==
    UNCHANGED <<followVars, loginVars, userID, userIDs, lock, IDMap, waiterPC, finished>>

\* return nil, errors.Wrap(err, ...)
ReturnError(e) ==
    /\ result' = [kind |-> "error", infos |-> <<>>, err |-> e]
    /\ mainPC' = "returned"

BatchGetUsersCall ==
    /\ mainPC = "idle"
    /\ \E uid \in Requesters, ids \in SeqsUpTo(MaxLen) :
          /\ userID' = uid
          /\ userIDs' = ids
    /\ mainPC' = "getUsers"
    /\ UNCHANGED <<followVars, loginVars, users, curUser, userFollowMap, userFansMap,
                   userStatMap, err, errChan, finished, wg, lock, IDMap,
                   workerPC, waiterPC, result, lookupErrs>>

\* users, err := srv.userRepo.GetUsersByIds(model.GetDB(), userIDs)
GetUsersByIds ==
    /\ mainPC = "getUsers"
    /\ \/ /\ \E S \in SUBSET IDSet(userIDs) : users' = S
          /\ err' = "nil"
          /\ mainPC' = "getCurUser"
          /\ UNCHANGED <<result, lookupErrs>>
       \/ /\ err' = "errUsers"
          /\ lookupErrs' = lookupErrs \cup {"errUsers"}
          /\ ReturnError("errUsers")
          /\ UNCHANGED users
    /\ MainKeeps
    /\ UNCHANGED <<curUser, userFollowMap, userFansMap, userStatMap, errChan,
                   wg, workerPC>>

\* curUser, err := srv.userRepo.GetUserByID(model.GetDB(), userID), then the
\* wait group, the result map and the two channels are made.
GetUserByID ==
    /\ mainPC = "getCurUser"
    /\ \/ /\ curUser' = userID
          /\ err' = "nil"
          /\ mainPC' = "getFollow"
          /\ UNCHANGED <<result, lookupErrs>>
       \/ /\ err' = "errCurUser"
          /\ lookupErrs' = lookupErrs \cup {"errCurUser"}
          /\ ReturnError("errCurUser")
          /\ UNCHANGED curUser
    /\ MainKeeps
    /\ UNCHANGED <<users, userFollowMap, userFansMap, userStatMap, errChan,
                   wg, workerPC>>

\* userFollowMap, err := srv.userFollowRepo.GetFollowByUIds(userID, userIDs)
GetFollowByUIds ==
    /\ mainPC = "getFollow"
    /\ \/ /\ \E S \in SUBSET IDSet(userIDs) : userFollowMap' = S
          /\ err' = "nil"
          /\ mainPC' = "getFans"
          /\ UNCHANGED lookupErrs
       \/ /\ userFollowMap' = {}
          /\ err' = "errFollow"
          /\ lookupErrs' = lookupErrs \cup {"errFollow"}
          /\ mainPC' = "sendFollowErr"
    /\ MainKeeps
    /\ UNCHANGED <<users, curUser, userFansMap, userStatMap, errChan, wg,
                   workerPC, result>>

\* errChan <- err: blocks while the channel's buffer is full.
MainSendErr(at, next) ==
    /\ mainPC = at
    /\ Len(errChan) < ErrChanCap
    /\ errChan' = Append(errChan, err)
    /\ mainPC' = next
    /\ MainKeeps
    /\ UNCHANGED <<users, curUser, userFollowMap, userFansMap, userStatMap,
                   err, wg, workerPC, result, lookupErrs>>

SendFollowErr == MainSendErr("sendFollowErr", "getFans")

\* userFansMap, err := srv.userFollowRepo.GetFansByUIds(userID, userIDs)
GetFansByUIds ==
    /\ mainPC = "getFans"
    /\ \/ /\ \E S \in SUBSET IDSet(userIDs) : userFansMap' = S
          /\ err' = "nil"
          /\ mainPC' = "getStat"
          /\ UNCHANGED lookupErrs
       \/ /\ userFansMap' = {}
          /\ err' = "errFans"
          /\ lookupErrs' = lookupErrs \cup {"errFans"}
          /\ mainPC' = "sendFansErr"
    /\ MainKeeps
    /\ UNCHANGED <<users, curUser, userFollowMap, userStatMap, errChan, wg,
                   workerPC, result>>

SendFansErr == MainSendErr("sendFansErr", "getStat")

\* userStatMap, err := srv.userStatRepo.GetUserStatByIDs(model.GetDB(), userIDs)
GetUserStatByIDs ==
    /\ mainPC = "getStat"
    /\ \/ /\ \E S \in SUBSET IDSet(userIDs) :
                userStatMap' = [u \in S |-> [UserID |-> u]]
          /\ err' = "nil"
          /\ mainPC' = "spawn"
          /\ UNCHANGED lookupErrs
       \/ /\ userStatMap' = <<>>
          /\ err' = "errStat"
          /\ lookupErrs' = lookupErrs \cup {"errStat"}
          /\ mainPC' = "sendStatErr"
    /\ MainKeeps
    /\ UNCHANGED <<users, curUser, userFollowMap, userFansMap, errChan, wg,
                   workerPC, result>>

SendStatErr == MainSendErr("sendStatErr", "spawn")

\* for _, u := range users { wg.Add(1); go func(u) {...}(u) }
SpawnWorker ==
    /\ mainPC = "spawn"
    /\ \E u \in users :
          /\ workerPC[u] = "none"
          /\ workerPC' = [workerPC EXCEPT ![u] = "start"]
    /\ wg' = wg + 1
    /\ MainKeeps
    /\ UNCHANGED <<mainPC, users, curUser, userFollowMap, userFansMap,
                   userStatMap, err, errChan, result, lookupErrs>>

\* go func() { wg.Wait(); close(finished) }()
StartWaiter ==
    /\ mainPC = "spawn"
    /\ \A u \in users : workerPC[u] # "none"
    /\ waiterPC' = "waiting"
    /\ mainPC' = "select"
    /\ UNCHANGED <<followVars, loginVars, userID, userIDs, lock, IDMap, finished, users,
                   curUser, userFollowMap, userFansMap, userStatMap, err,
                   errChan, wg, workerPC, result, lookupErrs>>

\* Mutant of MergeInfos: the nil entries are dropped.
MergeInfosDropNil(ids, m) ==
    LET NotNil(x) == x # NilInfo
    IN  SelectSeq([i \in 1..Len(ids) |-> m[ids[i]]], NotNil)

\* for _, id := range ids { infos = append(infos, userList.IDMap[id]) }
MergeInfos(ids, m) == [i \in 1..Len(ids) |-> m[ids[i]]]

\* select { case <-finished: ... return infos, nil
\*          case err := <-errChan: return nil, err }
\* When both channels are ready the runtime picks either case.
Select ==
    /\ mainPC = "select"
    /\ \/ /\ finished
          /\ result' = [kind |-> "list", infos |-> MergeInfos(userIDs, IDMap),
                        err |-> "nil"]
          /\ mainPC' = "returned"
          /\ UNCHANGED errChan
       \/ /\ Len(errChan) > 0
          /\ errChan' = Tail(errChan)
          /\ ReturnError(Head(errChan))
    /\ MainKeeps
    /\ UNCHANGED <<users, curUser, userFollowMap, userFansMap, userStatMap,
                   err, wg, workerPC, lookupErrs>>

\* --------------------------------------------- the transform workers
WorkerKeeps ==
    UNCHANGED <<followVars, loginVars, mainPC, userID, userIDs, users, curUser,
                userFollowMap, userFansMap, userStatMap, err, finished,
                waiterPC, result, lookupErrs>>

\* Mutant of WorkerLock: the worker enters the section without waiting for
\* the lock to be free.
WorkerLockNoWait(u) ==
    /\ workerPC[u] = "start"
    /\ lock' = u
    /\ workerPC' = [workerPC EXCEPT ![u] = "locked"]
    /\ WorkerKeeps
    /\ UNCHANGED <<errChan, wg, IDMap>>

\* userList.Lock.Lock()
WorkerLock(u) ==
    /\ workerPC[u] = "start"
    /\ lock = 0
    /\ lock' = u
    /\ workerPC' = [workerPC EXCEPT ![u] = "locked"]
    /\ WorkerKeeps
    /\ UNCHANGED <<errChan, wg, IDMap>>

\* Mutant of TransInput: the follow set and the fans set are exchanged.
TransInputSwappedFlags(u) ==
    [CurUser  |-> curUser,
     User     |-> u,
     UserStat |-> IF u \in DOMAIN userStatMap THEN userStatMap[u] ELSE NilStat,
     IsFollow |-> IF u \in userFansMap THEN 1 ELSE 0,
     IsFans   |-> IF u \in userFollowMap THEN 1 ELSE 0]

\* The input of idl.TransferUser as the worker builds it from the lookups.
TransInput(u) ==
    [CurUser  |-> curUser,
     User     |-> u,
     UserStat |-> IF u \in DOMAIN userStatMap THEN userStatMap[u] ELSE NilStat,
     IsFollow |-> IF u \in userFollowMap THEN 1 ELSE 0,
     IsFans   |-> IF u \in userFansMap THEN 1 ELSE 0]

\* The body of the worker: the flags, the stat, TransferUser, then either
\* the error exit (err is the calling function's variable) or the write.
WorkerTransform(u) ==
    /\ workerPC[u] = "locked"
    /\ IF err # "nil"
       THEN /\ workerPC' = [workerPC EXCEPT ![u] = "sendErr"]
            /\ UNCHANGED IDMap
       ELSE /\ IDMap' = [IDMap EXCEPT ![u] = TransferUser(TransInput(u))]
            /\ workerPC' = [workerPC EXCEPT ![u] = "unlock"]
    /\ WorkerKeeps
    /\ UNCHANGED <<errChan, wg, lock>>

\* errChan <- err; return
WorkerSendErr(u) ==
    /\ workerPC[u] = "sendErr"
    /\ Len(errChan) < ErrChanCap
    /\ errChan' = Append(errChan, err)
    /\ workerPC' = [workerPC EXCEPT ![u] = "unlock"]
    /\ WorkerKeeps
    /\ UNCHANGED <<wg, lock, IDMap>>

\* defer userList.Lock.Unlock()
WorkerUnlock(u) ==
    /\ workerPC[u] = "unlock"
    /\ lock' = 0
    /\ workerPC' = [workerPC EXCEPT ![u] = "wgDone"]
    /\ WorkerKeeps
    /\ UNCHANGED <<errChan, wg, IDMap>>

\* defer wg.Done()
WorkerDone(u) ==
    /\ workerPC[u] = "wgDone"
    /\ wg' = wg - 1
    /\ workerPC' = [workerPC EXCEPT ![u] = "done"]
    /\ WorkerKeeps
    /\ UNCHANGED <<errChan, lock, IDMap>>

Worker ==
    \E u \in Users :
        \/ WorkerLock(u)
        \/ WorkerTransform(u)
        \/ WorkerSendErr(u)
        \/ WorkerUnlock(u)
        \/ WorkerDone(u)

\* wg.Wait(); close(finished)
WaiterClose ==
    /\ waiterPC = "waiting"
    /\ wg = 0
    /\ finished' = TRUE
    /\ waiterPC' = "done"
    /\ UNCHANGED <<followVars, loginVars, mainPC, userID, userIDs, users, curUser,
                   userFollowMap, userFansMap, userStatMap, err, errChan, wg,
                   lock, IDMap, workerPC, result, lookupErrs>>

NextBatch ==
    \/ BatchGetUsersCall
    \/ GetUsersByIds
    \/ GetUserByID
    \/ GetFollowByUIds
    \/ SendFollowErr
    \/ GetFansByUIds
    \/ SendFansErr
    \/ GetUserStatByIDs
    \/ SendStatErr
    \/ SpawnWorker
    \/ StartWaiter
    \/ Select
    \/ Worker
    \/ WaiterClose

SpecBatch == Init /\ [][NextBatch]_vars

\* ============================================================ claims
\* The call in progress and the pair it is about.
Returned == pc = "returned"
CallPair == <<call.userID, call.followedUID>>
CallFan == <<call.followedUID, call.userID>>

\* C1: when one of the four steps of AddUserFollow or CancelUserFollow
\* returns an error, the call returns an error and the committed tables
\* (follow rows, fan rows, both counters of every user) are those of before
\* the call.
C1_FailedStepLeavesStateUnchanged ==
    (Returned /\ failedStep \in 1..4) => (ret = "err" /\ db = pre)

\* C1 witness: CancelUserFollow failed at its third step on a pair whose
\* committed follow row is Normal: steps 1 and 2 had written, and nothing of
\* it is committed.
C1_Witness ==
    /\ Returned /\ call.fn = "CancelUserFollow" /\ failedStep = 3
    /\ ret = "err"
    /\ db.follow[CallPair].Status = FollowStatusNormal
    /\ db.fans[CallFan].Status = FollowStatusNormal
    /\ db = pre

\* C2: every return of AddUserFollow and CancelUserFollow after a step or
\* the commit returned (success or error) leaves the transaction terminated:
\* committed exactly when the call returns nil, rolled back otherwise, never
\* open.
C2_TransactionTerminated ==
    (Returned /\ ~panicked) =>
        /\ txState \in {"committed", "rolledback"}
        /\ (txState = "committed") <=> (ret = "nil")

\* C5: in every committed state, for every ordered pair (A,B), the follow
\* row A->B and the fan row of B for follower A have the same status (an
\* absent row counts as Deleted).
C5_FollowAndFanAgree ==
    \A u \in Users, v \in Users :
        /\ db.follow[<<u, v>>].Status = db.fans[<<v, u>>].Status
        /\ (db.follow[<<u, v>>].ID = 0) <=> (db.fans[<<v, u>>].ID = 0)

\* C5 witness: AddUserFollow has failed at its second step (its follow row
\* written in the transaction, its fan row not) on a pair that stays without
\* a Normal row, while a pair of distinct users is committed Normal in both
\* tables.
C5_Witness ==
    /\ Returned /\ call.fn = "AddUserFollow" /\ failedStep = 2
    /\ db.follow[CallPair].Status # FollowStatusNormal
    /\ \E u \in Users, v \in Users :
          /\ u # v
          /\ db.follow[<<u, v>>].Status = FollowStatusNormal
          /\ db.fans[<<v, u>>].Status = FollowStatusNormal

\* C6: starting from no edges and all counters zero, after any sequence of
\* AddUserFollow and CancelUserFollow calls the two counters of every user
\* are >= 0.
C6_CountersNeverNegative ==
    \A u \in Users : db.followCount[u] >= 0 /\ db.followerCount[u] >= 0

\* C7: a successful (nil error) AddUserFollow(a,b) followed by a successful
\* CancelUserFollow(a,b) leaves followingCount(a) and followerCount(b) at
\* their values of before the AddUserFollow, and the follow row and the fan
\* row of (a,b) Deleted.
C7_FollowThenUnfollowNetZero ==
    ( /\ Returned /\ call.fn = "CancelUserFollow" /\ ret = "nil"
      /\ prev.fn = "AddUserFollow" /\ prev.ret = "nil"
      /\ prev.userID = call.userID /\ prev.followedUID = call.followedUID )
    =>
    ( /\ db.followCount[call.userID] = prev.followCount
      /\ db.followerCount[call.followedUID] = prev.followerCount
      /\ db.follow[CallPair].ID # 0
      /\ db.follow[CallPair].Status = FollowStatusDelete
      /\ db.fans[CallFan].ID # 0
      /\ db.fans[CallFan].Status = FollowStatusDelete )

\* C8: when a step of AddUserFollow or CancelUserFollow panics, the
\* transaction is rolled back and the call reports a failure, never a nil
\* error.
C8_PanicReportedAsFailure ==
    (Returned /\ panicked) => (txState = "rolledback" /\ ret # "nil")

\* ------------------------------------------------------ BatchGetUsers
BatchReturned == mainPC = "returned"

MainAtSend == mainPC \in {"sendFollowErr", "sendFansErr", "sendStatErr"}

\* C3: when exactly one of the five lookups of BatchGetUsers returned an
\* error, BatchGetUsers returns that error and no list, under every
\* scheduling of the workers and of the select.
C3_SingleLookupErrorReturned ==
    (BatchReturned /\ Cardinality(lookupErrs) = 1) =>
        /\ result.kind = "error"
        /\ result.err \in lookupErrs
        /\ result.infos = <<>>

\* C4: a list returned by BatchGetUsers has len(userIDs) entries, entry i
\* being the aggregated view of the user userIDs[i] (the same at every
\* position of a repeated ID), or nil when the user lookup returned no
\* record for userIDs[i]; for an empty userIDs the list is empty.
C4_ListFollowsTargetOrder ==
    (BatchReturned /\ result.kind = "list") =>
        /\ Len(result.infos) = Len(userIDs)
        /\ \A i \in 1..Len(userIDs) :
              result.infos[i] =
                  IF userIDs[i] \in users
                  THEN TransferUser(TransInput(userIDs[i]))
                  ELSE NilInfo

\* C4 witness: a list returned for two targets given in descending ID
\* order, the first found and followed by the requester, the second with no
\* record: entry 1 is the view of the first target, entry 2 is nil.
C4_Witness ==
    /\ BatchReturned /\ result.kind = "list"
    /\ Len(userIDs) = 2 /\ userIDs[1] > userIDs[2]
    /\ users = {userIDs[1]}
    /\ result.infos[1].ID = userIDs[1]
    /\ result.infos[1].IsFollow = 1
    /\ result.infos[2] = NilInfo

\* C9: no send on the single-slot error channel blocks forever: the calling
\* goroutine is never at a send with the slot full (it is the channel's only
\* receiver), and no worker is at a send with the slot full once the caller
\* has returned.
C9_NoSendBlocksForever ==
    /\ ~(MainAtSend /\ Len(errChan) = ErrChanCap)
    /\ \A u \in Users :
          ~(workerPC[u] = "sendErr" /\ Len(errChan) = ErrChanCap /\ BatchReturned)

\* C10: at the moment BatchGetUsers returns, with a list or with an error,
\* every transform worker it started has finished and the wait group's count
\* is zero, so that a returned list has an entry for every user record.
C10_WorkersFinishedAtReturn ==
    BatchReturned =>
        /\ wg = 0
        /\ \A u \in Users : workerPC[u] \in {"none", "done"}
        /\ result.kind = "list" => \A u \in users : IDMap[u] # NilInfo

\* Every goroutine BatchGetUsers started has run to its end.
AllGoroutinesDone ==
    /\ \A u \in Users : workerPC[u] \in {"none", "done"}
    /\ waiterPC \in {"none", "done"}

\* C11: once BatchGetUsers has returned an error, every goroutine it
\* started can still run to its end: no state is reached where some worker
\* or the wg.Wait goroutine has not finished and nothing can take a step any
\* more (blocked for good on the error channel, the mutex or the wait group).
C11_NoGoroutineLeak ==
    (BatchReturned /\ result.kind = "error") =>
        (AllGoroutinesDone \/ ENABLED NextBatch)

\* C12: in every list BatchGetUsers returns, a non-nil entry of target t has
\* its follow flag 1 exactly when t is in the set the follow lookup returned
\* and its fans flag 1 exactly when t is in the set the fans lookup returned;
\* a target without a stat record has a nil stat, and the list is returned
\* all the same.
C12_FlagsMatchLookups ==
    (BatchReturned /\ result.kind = "list") =>
        \A i \in 1..Len(result.infos) :
            LET e == result.infos[i]
                t == userIDs[i]
            IN  e # NilInfo =>
                  /\ e.ID = t
                  /\ (e.IsFollow = 1) <=> (t \in userFollowMap)
                  /\ (e.IsFans = 1) <=> (t \in userFansMap)
                  /\ e.IsFollow \in {0, 1} /\ e.IsFans \in {0, 1}
                  /\ t \notin DOMAIN userStatMap => e.Stat = NilStat
                  /\ t \in DOMAIN userStatMap => e.Stat = userStatMap[t]

\* C12 witness: a list with two views, the first followed by the requester
\* and not a fan, the second a fan and not followed, the first without a
\* stat record, the second with one.
C12_Witness ==
    /\ BatchReturned /\ result.kind = "list" /\ Len(result.infos) = 2
    /\ result.infos[1] # NilInfo /\ result.infos[2] # NilInfo
    /\ result.infos[1].IsFollow = 1 /\ result.infos[1].IsFans = 0
    /\ result.infos[2].IsFollow = 0 /\ result.infos[2].IsFans = 1
    /\ result.infos[1].Stat = NilStat
    /\ result.infos[2].Stat # NilStat

\* The worker of u is between userList.Lock.Lock() and the deferred
\* userList.Lock.Unlock().
InSection(u) == workerPC[u] \in {"locked", "sendErr", "unlock"}

\* Exactly the worker inside the section holds the lock: at most one worker
\* is inside, and a worker that has left (by the write or by the error exit)
\* holds it no more.
MutexInv ==
    /\ lock \in {0} \cup Users
    /\ \A u \in Users : InSection(u) <=> lock = u

\* A step that changes IDMap is taken by the holder of the lock and writes
\* the holder's entry only.
WriteUnderLock ==
    IDMap' # IDMap =>
        /\ lock \in Users
        /\ workerPC[lock] = "locked"
        /\ \A v \in Users : v # lock => IDMap'[v] = IDMap[v]

\* C17: in BatchGetUsers at most one transform worker at a time is inside
\* the section that reads the lookups and writes userList.IDMap; every write
\* to IDMap is made by the worker holding userList.Lock; the lock is
\* released on every exit of the worker, the error exit included.
C17_MapGuardedByLock == []MutexInv /\ [][WriteUnderLock]_vars

\* C17 witness: one worker has left by the error exit (no entry written, the
\* lock released) and another worker is inside the section holding the lock.
C17_Witness ==
    \E u \in Users, v \in Users :
        /\ u # v
        /\ workerPC[u] = "done" /\ IDMap[u] = NilInfo /\ err # "nil"
        /\ InSection(v) /\ lock = v

\* ------------------------------------------------ follow transaction
\* The committed tables differ from those of before the call in the rows of
\* the call's pair and in the two counters of the call only: the follow row
\* and the fan row of the pair have status st, followCount of the follower
\* and followerCount of the followee have moved by delta.
FrameEffect(st, delta) ==
    /\ db.follow[CallPair].Status = st
    /\ db.fans[CallFan].Status = st
    /\ \A p \in Pairs : p # CallPair => db.follow[p] = pre.follow[p]
    /\ \A p \in Pairs : p # CallFan => db.fans[p] = pre.fans[p]
    /\ \A u \in Users :
          /\ db.followCount[u] = pre.followCount[u]
                                   + (IF u = call.userID THEN delta ELSE 0)
          /\ db.followerCount[u] = pre.followerCount[u]
                                   + (IF u = call.followedUID THEN delta ELSE 0)

\* C15: an AddUserFollow(a,b) that returns nil has set the follow row a->b
\* and the fan row of b for a to Normal, added exactly 1 to followCount(a)
\* and to followerCount(b) and left every other row and counter unchanged; a
\* CancelUserFollow(a,b) that returns nil has done the same with Deleted
\* and -1.
C15_FrameOfSuccessfulCall ==
    /\ (Returned /\ ret = "nil" /\ call.fn = "AddUserFollow") =>
           /\ FrameEffect(FollowStatusNormal, 1)
           /\ db.follow[CallPair].ID # 0 /\ db.fans[CallFan].ID # 0
    /\ (Returned /\ ret = "nil" /\ call.fn = "CancelUserFollow") =>
           FrameEffect(FollowStatusDelete, -1)

\* C14: IsFollowedUser(u,t) answers true exactly when the query succeeded
\* and the committed follow row u->t has a non-zero ID and status Normal; it
\* answers false when there is no such row and when the query returned an
\* error; it changes no follow row, fan row or counter.
C14_IsFollowedUserAnswer ==
    pc = "queried" =>
        /\ query.result <=> ( /\ ~query.err
                              /\ db.follow[CallPair].ID > 0
                              /\ db.follow[CallPair].Status = FollowStatusNormal )
        /\ db = pre

\* C14 witness: the query on a pair whose committed follow row is Normal
\* returned an error and the answer is false.
C14_Witness ==
    /\ pc = "queried" /\ query.err /\ ~query.result
    /\ db.follow[CallPair].ID > 0
    /\ db.follow[CallPair].Status = FollowStatusNormal

\* C16: two successive AddUserFollow(a,b) that both return nil raise
\* followCount(a) and followerCount(b) by 2 in total, the pair (a,b) having
\* its one follow row and its one fan row Normal.
C16_FollowTwiceCountsTwice ==
    ( /\ Returned /\ call.fn = "AddUserFollow" /\ ret = "nil"
      /\ prev.fn = "AddUserFollow" /\ prev.ret = "nil"
      /\ prev.userID = call.userID /\ prev.followedUID = call.followedUID )
    =>
    ( /\ db.followCount[call.userID] = prev.followCount + 2
      /\ db.followerCount[call.followedUID] = prev.followerCount + 2
      /\ db.follow[CallPair].ID # 0
      /\ db.follow[CallPair].Status = FollowStatusNormal
      /\ db.fans[CallFan].ID # 0
      /\ db.fans[CallFan].Status = FollowStatusNormal )

\* The Normal follow rows of follower u and the Normal fan rows of followee u.
NormalFollows(u) ==
    {v \in Users : db.follow[<<u, v>>].ID # 0
                   /\ db.follow[<<u, v>>].Status = FollowStatusNormal}

NormalFans(u) ==
    {v \in Users : db.fans[<<u, v>>].ID # 0
                   /\ db.fans[<<u, v>>].Status = FollowStatusNormal}

\* C18: from no edges and all counters zero, when AddUserFollow is only
\* applied to a pair whose edge is not Normal and CancelUserFollow only to a
\* pair whose edge is Normal, followCount(u) is the number of Normal follow
\* rows of follower u and followerCount(u) the number of Normal fan rows of
\* followee u, for every user u.
C18_CountersCountNormalRows ==
    \A u \in Users :
        /\ db.followCount[u] = Cardinality(NormalFollows(u))
        /\ db.followerCount[u] = Cardinality(NormalFans(u))

\* C18 witness: after two follows and an unfollow, a user has one Normal
\* follow row and one Deleted follow row, and followCount 1.
C18_Witness ==
    /\ Returned /\ call.fn = "CancelUserFollow" /\ ret = "nil" /\ ~panicked
    /\ db.follow[CallPair].ID # 0
    /\ db.follow[CallPair].Status = FollowStatusDelete
    /\ Cardinality(NormalFollows(call.userID)) = 1
    /\ db.followCount[call.userID] = 1

LoginReturned(p) == loginPC[p] = "returned"

LoginErrors == {"get u info err", "create user err", "gen token sign err"}

\* C13: with one PhoneLogin at a time, a call that returns a token for a
\* phone that had no record has created the one user record of that phone,
\* whose username is the decimal string of the phone; a call for a phone
\* that had a record creates none; a call returns an error only as the
\* wrapped error of a failed lookup, create or sign; no phone ever has more
\* than one record.
C13_PhoneLoginRegistersOnce ==
    /\ \A phone \in Phones :
          Cardinality(UsersWithPhone(userTable, phone)) <= 1
    /\ \A p \in Callers : LoginReturned(p) =>
          /\ loginRet[p].kind \in {"token", "error"}
          /\ loginRet[p].kind = "error" => loginRet[p].err \in LoginErrors
          /\ loginRet[p].kind = "token" =>
                /\ \E i \in UsersWithPhone(userTable, loginPhone[p]) :
                      /\ userTable[i].ID # 0
                      /\ userTable[i].Username = Itoa(loginPhone[p])
                      /\ loginU[p].ID = 0 => loginNew[p] = userTable[i]
                /\ loginU[p].ID # 0 => loginNew[p] = NoUser

\* C13 witness: a second login with phone 10 returned a token for the
\* record found, which is the only record of phone 10 and is named "10".
C13_Witness ==
    \E p \in Callers :
        /\ LoginReturned(p) /\ loginRet[p].kind = "token"
        /\ loginPhone[p] = 10 /\ loginU[p].ID # 0
        /\ Cardinality(UsersWithPhone(userTable, 10)) = 1
        /\ loginU[p].Username = <<"1", "0">>

\* C19: the token returned by PhoneLogin(phone) carries the ID and the
\* username of the user record stored for that phone, also when the call
\* created that record.
C19_TokenIssuedForStoredUser ==
    \A p \in Callers :
        (LoginReturned(p) /\ loginRet[p].kind = "token") =>
            \E i \in UsersWithPhone(userTable, loginPhone[p]) :
                /\ loginRet[p].UserID = userTable[i].ID
                /\ loginRet[p].Username = userTable[i].Username

\* C20: once all PhoneLogin calls have returned, however their lookups and
\* creates interleaved, no phone has more than one user record.
C20_NoDuplicateUnderRace ==
    (\A p \in Callers : loginPC[p] \in {"idle", "returned"}) =>
        \A phone \in Phones :
            Cardinality(UsersWithPhone(userTable, phone)) <= 1

====
